---- MODULE Spec2Model ----
(***************************************************************************)
(* A model of modo.hh: the memoized pull-based signal graph (Value, Input, *)
(* Node, Node2/InputTuple), the WAV writer's pull loop and the ADSR        *)
(* envelope.                                                               *)
(*                                                                         *)
(* Graph under study: one Gain (a Node<float> with the sockets input and   *)
(* amount) and one Node2<LowPass> (auto-wired sockets input and cutoff).   *)
(* Signal values are small integers, which float represents exactly, so    *)
(* Gain's product and LowPass's recurrence are computed exactly; a value   *)
(* that grows beyond MaxValue (in a feedback loop) is held at MaxValue.    *)
(***************************************************************************)
EXTENDS Integers, Sequences, FiniteSets, TLC

\* ---------------------------------------------------------------- bounds
MaxT == 2
MaxPulls == 2
MaxConnects == 2
MaxDepth == 7
MaxFrames == 3
\* signal values beyond this magnitude are not told apart
MaxValue == 4096
\* the envelope value 1.0 in units of the grid ADSR values are kept on
One == 8
\* Pattern<N>: the number of note patterns, and the capacity of its queue
NPatterns == 2
\* the longest pattern string
MaxLen == 3
\* a semitone, in grid units of the logarithm of a frequency
Semitone == 6
\* the calls a glide is spread over (0.05f / DT in the code), scaled down
GlideCalls == 4
\* 1 / DT: DT = 1.f / 44100.f
TicksPerSecond == 44100

\* ---------------------------------------------------------------- objects
GainNodes == {"gain"}
Node2Nodes == {"lp"}
Nodes == GainNodes \cup Node2Nodes

\* the Input members of each node, in declaration order (Gain: input, amount;
\* Node2<LowPass>: one Input per parameter of LowPass::process(input, cutoff))
Sockets(n) ==
  IF n = "gain" THEN <<"gain.input", "gain.amount">>
  ELSE <<"lp.input", "lp.cutoff">>

Inputs == {"gain.input", "gain.amount", "lp.input", "lp.cutoff"}
Outputs == Nodes \cup Inputs

\* the times the host pulls at directly, and all times pulled at
Times == 0..MaxT
Stamps == Times \cup 0..MaxFrames
Consts == {1, 2}

\* what the members t and value of a Node2, which no constructor initializes,
\* may hold: zeroed memory, or garbage that does or does not collide with a
\* time the node is pulled at
Uninit == {[t |-> 0, value |-> 0], [t |-> 1, value |-> 5], [t |-> 7, value |-> 5]}

VARIABLES
  output,    \* Input::output, "value" standing for &this->value
  ivalue,    \* Input::value (the embedded Value<T>)
  node_t,    \* Node::t, Node2::t
  node_value,\* Node::value, Node2::value
  previous,  \* LowPass::previous
  stack,     \* the call stack of the pull in progress, innermost frame last
  overflow,  \* the recursion ran out of stack
  host,      \* the host's last pull n.get(t) and the value it returned
  pulls, connects,   \* how many host pulls / wiring operations so far
  runs,      \* runs[n][t]: how often n's routine was invoked for time t
  returned,  \* returned[n][t]: the values n.get(t) returned to the host
  log,       \* log[n]: the recompute of n in progress or last finished
  mono,      \* the host's pulls so far were at strictly increasing times
  forward,   \* the host's pulls so far never went back in time
  wav,       \* WAVOutput::run: where it is, its input, frames and loop variable
             \* t, and the size of the file so far
  wav_pulled,\* the times run has pulled its input at, in order
  adsr,      \* ADSR::state, ADSR::value (in grid units) and ADSR::note
  adsr_call, \* the last call of ADSR::process: the object before it, the
             \* event, the state the switch was entered with, the value
             \* returned, and whether a note-on has arrived so far
  note_pattern, \* a NotePattern on its own: note, pattern and t
  np_call,   \* its calls so far: how many clock ticks it was fed, the last
             \* clock and the event returned for it, the indices of pattern
             \* that call read, and the last non-empty events returned
  patterns,  \* Pattern::patterns, the array of NotePattern
  queue,     \* Pattern::queue: buffer.data, buffer.start and size
  pattern_call, \* the calls of Pattern::process so far
  automation,   \* Automation: the script, cursor, value, delta and t
  automation_call, \* the calls of Automation::process so far
  midi_clock,   \* MIDIClock::value
  clock_call,   \* the last call of MIDIClock::process
  frequency,    \* Frequency: frequency, target_frequency, factor and note
  frequency_call \* the calls of Frequency::process so far

gvars == <<output, ivalue, node_t, node_value, previous, stack, overflow, host,
           pulls, connects, runs, returned, log, mono, forward>>

wvars == <<wav, wav_pulled>>

avars == <<adsr, adsr_call>>

nvars == <<note_pattern, np_call>>
pvars == <<patterns, queue, pattern_call>>
uvars == <<automation, automation_call>>
cvars == <<midi_clock, clock_call>>
fvars == <<frequency, frequency_call>>
xvars == <<nvars, pvars, uvars, cvars, fvars>>

vars == <<gvars, wvars, avars, xvars>>

Top == stack[Len(stack)]

Frame(o, t) == [obj |-> o, t |-> t, pc |-> "enter", args |-> <<>>, ord |-> <<1, 2>>]

NoLog == [t |-> -1, pulled |-> <<>>, args |-> <<>>, done |-> FALSE]

NoPull == [obj |-> "none", t |-> -1, ret |-> 0]

\* ---------------------------------------------------------------- the graph
\* what an object pulls when it is pulled: a node its sockets, an Input the
\* Output it is wired to
Succ(w, x) ==
  IF x \in Nodes THEN {Sockets(x)[k] : k \in 1..Len(Sockets(x))}
  ELSE IF w[x] = "value" THEN {} ELSE {w[x]}

RECURSIVE ReachFrom(_, _, _)
ReachFrom(w, S, k) ==
  IF k = 0 THEN S
  ELSE ReachFrom(w, S \cup UNION {Succ(w, x) : x \in S}, k - 1)

Reaches(w, x, y) == y \in ReachFrom(w, Succ(w, x), Cardinality(Outputs))

Acyclic(w) == \A x \in Outputs : ~Reaches(w, x, x)

\* a cycle of Inputs alone: no memoizing node on it
InputCycle(w) ==
  \E i \in Inputs :
    LET RECURSIVE Walk(_, _)
        Walk(x, k) == IF x \notin Inputs \/ w[x] = "value" THEN FALSE
                      ELSE IF w[x] = i THEN TRUE
                      ELSE IF k = 0 THEN FALSE ELSE Walk(w[x], k - 1)
    IN Walk(i, Cardinality(Inputs))

\* ---------------------------------------------------------------- wiring
\* Input::Input(value = T()): wired to its own Value, which holds T()
FreshOutput == [i \in Inputs |-> "value"]
FreshValue == [i \in Inputs |-> 0]

\* Input::connect(Output<T>&), operator >>(Output<T>&, Input<T>&)
Input_connect(i, o) ==
  /\ output' = [output EXCEPT ![i] = o]
  /\ UNCHANGED ivalue

\* Input::connect(const T&), operator >>(const T&, Input<T>&)
Input_connect_value(i, c) ==
  /\ ivalue' = [ivalue EXCEPT ![i] = c]
  /\ output' = [output EXCEPT ![i] = "value"]

Connect ==
  /\ stack = <<>> /\ pulls = 0
  /\ connects < MaxConnects
  /\ \E i \in Inputs : \E o \in Outputs : Input_connect(i, o)
  /\ connects' = connects + 1
  /\ UNCHANGED <<node_t, node_value, previous, stack, overflow, host, pulls,
                 runs, returned, log, mono, forward, wvars, avars, xvars>>

ConnectValue ==
  /\ stack = <<>> /\ pulls = 0
  /\ connects < MaxConnects
  /\ \E i \in Inputs : \E c \in Consts : Input_connect_value(i, c)
  /\ connects' = connects + 1
  /\ UNCHANGED <<node_t, node_value, previous, stack, overflow, host, pulls,
                 runs, returned, log, mono, forward, wvars, avars, xvars>>

\* the graphs the pulls are studied on: every combination of these wirings of
\* the four sockets, each a result of connect calls on fresh Inputs
Menu(i) ==
  CASE i = "gain.input"  -> {<<"value", 0>>, <<"lp", 0>>, <<"gain", 0>>,
                              <<"gain.input", 0>>}
    [] i = "gain.amount" -> {<<"value", 2>>, <<"lp", 0>>, <<"gain.input", 0>>}
    [] i = "lp.input"    -> {<<"value", 1>>, <<"gain", 0>>}
    [] i = "lp.cutoff"   -> {<<"value", 2>>}

Wirings == {w \in [Inputs -> (Outputs \cup {"value"}) \X (Consts \cup {0})] :
              \A i \in Inputs : w[i] \in Menu(i)}

\* ---------------------------------------------------------------- Init
\* a WAVOutput whose run has not been called
NoRun == [pc |-> "idle", input |-> "none", frames |-> 0, t |-> 0, bytes |-> 0]

InitWAV == wav = NoRun /\ wav_pulled = <<>>

\* ADSR's member initializers: state = State::Sustain, value = 0.f, note = 0
ADSR_init == [state |-> "Sustain", value |-> 0, note |-> 0]

\* MIDIEvent()
MIDIEvent_empty == [status |-> 0, data1 |-> 0, data2 |-> 2]

NoCall == [prev |-> ADSR_init, event |-> MIDIEvent_empty, entered |-> "none",
           ret |-> 0, note_on_seen |-> FALSE]

InitADSR == adsr = ADSR_init /\ adsr_call = NoCall

\* NotePattern::NotePattern: note(note), pattern(pattern), t(0); the pattern
\* is the string's characters, without its terminator
NotePattern(note, pattern) == [note |-> note, pattern |-> pattern, t |-> 0]

\* a NotePattern that was not called yet
NoTick == [ticks |-> 0, clock |-> MIDIEvent_empty, event |-> MIDIEvent_empty,
           reads |-> <<>>, last |-> "none", before |-> "none",
           note_on |-> MIDIEvent_empty]

RestNotePattern ==
  /\ note_pattern = NotePattern(60, <<"5">>)
  /\ np_call = NoTick

\* Queue::Queue with RingBuffer::RingBuffer: data(), start(0), size(0)
Queue_init == [data |-> [i \in 0..(NPatterns - 1) |-> MIDIEvent_empty],
               start |-> 0, size |-> 0]

\* a Pattern that was not called yet
NoProcess == [produced |-> <<>>, returned |-> <<>>, ret |-> MIDIEvent_empty,
              overwritten |-> FALSE, ticks |-> 0]

\* Pattern::Pattern: patterns(patterns), with the notes 61, 62, ...
InitPattern(P) ==
  /\ \E s \in [1..NPatterns -> P] :
       patterns = [i \in 1..NPatterns |-> NotePattern(60 + i, s[i])]
  /\ queue = Queue_init
  /\ pattern_call = NoProcess

RestPattern ==
  /\ patterns = [i \in 1..NPatterns |-> NotePattern(60 + i, <<"5">>)]
  /\ queue = Queue_init
  /\ pattern_call = NoProcess

\* float values: a multiple of DT, an infinity with its sign, or a NaN
Num(n) == [k |-> "num", v |-> n]
Inf(sign) == [k |-> "inf", v |-> sign]
NaN == [k |-> "nan", v |-> 0]

\* Automation::Automation: cursor(automation), value(0.f), delta(0.f), t(1);
\* the script is the string's characters, the cursor an index into it
Automation(script) ==
  [script |-> script, cursor |-> 0, value |-> Num(0), delta |-> Num(0), t |-> 1]

\* an Automation that was not called yet
NoAutomationCall ==
  [calls |-> 0, ret |-> Num(0), parses |-> 0,
   ended |-> FALSE, end_value |-> Num(0), end_parses |-> 0,
   ramp |-> [at |-> 0, ticks |-> 0, target |-> Num(0)],
   zero |-> [at |-> 0, target |-> Num(0)]]

RestAutomation ==
  /\ automation = Automation(<<"0">>)
  /\ automation_call = NoAutomationCall

\* MIDIClock: float value = 1.f, in grid units
MIDIClock_init == [value |-> One]

\* a MIDIClock that was not called yet
NoClockCall == [called |-> FALSE, prev |-> One, inc |-> 0,
                event |-> MIDIEvent_empty, phase |-> 0, ticks |-> 0,
                in_range |-> TRUE]

RestClock == midi_clock = MIDIClock_init /\ clock_call = NoClockCall

\* Frequency: factor = 1.f and note = 0; frequency and target_frequency, which
\* nothing initializes, hold f and g. Frequencies are logarithms, in grid
\* units above A4 (note 69), and factor is the step the multiplication by it
\* makes on that scale: 0 for 1.f
Frequency_init(f, g) ==
  [frequency |-> f, target_frequency |-> g, factor |-> 0, note |-> 0]

\* a Frequency that was not called yet
NoFrequencyCall ==
  [called |-> FALSE, event |-> MIDIEvent_empty, prev |-> 0, ret |-> 0,
   glide |-> FALSE, from |-> 0]

RestFrequency ==
  /\ frequency = Frequency_init(0, 0)
  /\ frequency_call = NoFrequencyCall

\* the objects a specification is not about, freshly constructed
InitRest ==
  /\ RestNotePattern
  /\ RestPattern
  /\ RestAutomation
  /\ RestClock
  /\ RestFrequency

InitNodes(U) ==
  /\ \E u \in U :
       /\ node_t = [n \in Nodes |-> IF n \in Node2Nodes THEN u.t ELSE 0]
       /\ node_value = [n \in Nodes |-> IF n \in Node2Nodes THEN u.value ELSE 0]
  /\ previous = [n \in Node2Nodes |-> 0]
  /\ stack = <<>>
  /\ overflow = FALSE
  /\ host = NoPull
  /\ pulls = 0
  /\ connects = 0
  /\ runs = [n \in Nodes |-> [t \in Stamps |-> 0]]
  /\ returned = [n \in Nodes |-> [t \in Stamps |-> {}]]
  /\ log = [n \in Nodes |-> NoLog]
  /\ mono = TRUE
  /\ forward = TRUE

\* freshly constructed nodes, nothing wired yet
InitFresh ==
  /\ output = FreshOutput
  /\ ivalue = FreshValue
  /\ InitNodes(Uninit)
  /\ InitWAV
  /\ InitADSR
  /\ InitRest

\* an ADSR on its own, beside an unwired graph in zeroed memory
InitEnvelope ==
  /\ output = FreshOutput
  /\ ivalue = FreshValue
  /\ InitNodes({[t |-> 0, value |-> 0]})
  /\ InitWAV
  /\ InitADSR
  /\ InitRest

\* an unwired graph in zeroed memory, a WAVOutput and an ADSR, none of them
\* called
InitBase ==
  /\ output = FreshOutput
  /\ ivalue = FreshValue
  /\ InitNodes({[t |-> 0, value |-> 0]})
  /\ InitWAV
  /\ InitADSR

\* a wired graph, before the first pull
InitWired ==
  /\ \E w \in Wirings :
       /\ output = [i \in Inputs |-> w[i][1]]
       /\ ivalue = [i \in Inputs |-> w[i][2]]
  /\ InitNodes(Uninit)
  /\ InitWAV
  /\ InitADSR
  /\ InitRest

Idle == stack = <<>> /\ ~overflow

\* ---------------------------------------------------------------- pulls
\* a virtual call o.get(t): a new frame, or no stack left for it
Call(o, t) ==
  /\ IF Len(stack) >= MaxDepth
     THEN overflow' = TRUE /\ stack' = stack
     ELSE overflow' = overflow /\ stack' = Append(stack, Frame(o, t))
  /\ UNCHANGED <<host, returned>>

\* return v from the innermost frame to its caller, or to the host
Return(v) ==
  /\ overflow' = overflow
  /\ IF Len(stack) = 1
     THEN /\ stack' = <<>>
          /\ host' = [host EXCEPT !.ret = v]
          /\ returned' = [returned EXCEPT ![host.obj][host.t] = @ \cup {v}]
     ELSE /\ stack' = [SubSeq(stack, 1, Len(stack) - 1)
                         EXCEPT ![Len(stack) - 1].args = Append(@, v)]
          /\ UNCHANGED <<host, returned>>

\* the frame below the innermost one is a node pulling one of its sockets
CallerIsNode == Len(stack) > 1 /\ stack[Len(stack) - 1].obj \in Nodes

\* Value::get
Value_get(i) == ivalue[i]

\* Input::get as it would be with `return get(t);` for `return output->get(t);`
Input_get_self(f) ==
  LET i == f.obj IN
  /\ IF f.args = <<>> /\ output[i] # "value"
     THEN /\ Call(i, f.t)
          /\ log' = log
     ELSE LET v == IF f.args = <<>> THEN Value_get(i) ELSE f.args[1] IN
          /\ Return(v)
          /\ log' = IF CallerIsNode
                    THEN [log EXCEPT ![stack[Len(stack) - 1].obj].pulled =
                            Append(@, [sock |-> i, t |-> f.t, val |-> v])]
                    ELSE log
  /\ UNCHANGED <<node_t, node_value, previous, runs>>

\* Input::get: forwards the pull, with the same t, to whatever it is wired to
Input_get(f) ==
  LET i == f.obj IN
  /\ IF f.args = <<>> /\ output[i] # "value"
     THEN /\ Call(output[i], f.t)
          /\ log' = log
     ELSE LET v == IF f.args = <<>> THEN Value_get(i) ELSE f.args[1] IN
          /\ Return(v)
          /\ log' = IF CallerIsNode
                    THEN [log EXCEPT ![stack[Len(stack) - 1].obj].pulled =
                            Append(@, [sock |-> i, t |-> f.t, val |-> v])]
                    ELSE log
  /\ UNCHANGED <<node_t, node_value, previous, runs>>

\* a float result, as far as the model tells values apart
Float(x) == IF x > MaxValue THEN MaxValue ELSE IF x < -MaxValue THEN -MaxValue ELSE x

\* Gain::produce, once both operands are there: get(input) * get(amount)
Gain_produce(in, amount) == Float(in * amount)

\* the operands of Gain::produce's product as (input, amount), whichever was
\* pulled first
GainOperands(f) ==
  [k \in 1..2 |-> f.args[CHOOSE j \in 1..2 : f.ord[j] = k]]

\* Node::get as it would be with the time stamp stored after produce():
\*   if (t != this->t) { value = produce(); this->t = t; }
Node_get_late(f) ==
  LET n == f.obj IN
  IF f.pc = "enter"
  THEN IF f.t # node_t[n]
       THEN \E ord \in {<<1, 2>>, <<2, 1>>} :
              /\ runs' = [runs EXCEPT ![n][f.t] = @ + 1]
              /\ log' = [log EXCEPT ![n] = [NoLog EXCEPT !.t = f.t]]
              /\ stack' = [stack EXCEPT ![Len(stack)] =
                             [f EXCEPT !.pc = "run", !.ord = ord]]
              /\ UNCHANGED <<node_t, node_value, previous, overflow, host,
                             returned>>
       ELSE /\ Return(node_value[n])
            /\ UNCHANGED <<node_t, node_value, previous, runs, log>>
  ELSE IF Len(f.args) < 2
       THEN /\ Call(Sockets(n)[f.ord[Len(f.args) + 1]], node_t[n])
            /\ UNCHANGED <<node_t, node_value, previous, runs, log>>
       ELSE LET a == GainOperands(f)
                v == Gain_produce(a[1], a[2]) IN
            /\ node_value' = [node_value EXCEPT ![n] = v]
            /\ node_t' = [node_t EXCEPT ![n] = f.t]
            /\ log' = [log EXCEPT ![n].args = a, ![n].done = TRUE]
            /\ Return(v)
            /\ UNCHANGED <<previous, runs>>

\* Node::get (with Node::get(Output&) and Gain::produce): recompute when t
\* differs from the stored time stamp, which is updated first
Node_get(f) ==
  LET n == f.obj IN
  IF f.pc = "enter"
  THEN IF f.t # node_t[n]
       THEN \E ord \in {<<1, 2>>, <<2, 1>>} :
              /\ node_t' = [node_t EXCEPT ![n] = f.t]
              /\ runs' = [runs EXCEPT ![n][f.t] = @ + 1]
              /\ log' = [log EXCEPT ![n] = [NoLog EXCEPT !.t = f.t]]
              /\ stack' = [stack EXCEPT ![Len(stack)] =
                             [f EXCEPT !.pc = "run", !.ord = ord]]
              /\ UNCHANGED <<node_value, previous, overflow, host, returned>>
       ELSE /\ Return(node_value[n])
            /\ UNCHANGED <<node_t, node_value, previous, runs, log>>
  ELSE IF Len(f.args) < 2
       THEN /\ Call(Sockets(n)[f.ord[Len(f.args) + 1]], node_t[n])
            /\ UNCHANGED <<node_t, node_value, previous, runs, log>>
       ELSE LET a == GainOperands(f)
                v == Gain_produce(a[1], a[2]) IN
            /\ node_value' = [node_value EXCEPT ![n] = v]
            /\ log' = [log EXCEPT ![n].args = a, ![n].done = TRUE]
            /\ Return(v)
            /\ UNCHANGED <<node_t, previous, runs>>

\* LowPass::process: the new output, which is also the new previous
LowPass_process(prev, in, cutoff) == Float(prev + (in - prev) * cutoff)

\* InputTuple::get_and_process: the socket to pull next, given the values
\* pulled so far; 0 once all are there and process is to be invoked
InputTuple_next(n, args) ==
  IF Len(args) < Len(Sockets(n)) THEN Len(args) + 1 ELSE 0

\* Node2::get as it would be without the comparison of t with the time stamp
Node2_get_always(f) ==
  LET n == f.obj IN
  IF f.pc = "enter"
  THEN /\ node_t' = [node_t EXCEPT ![n] = f.t]
       /\ runs' = [runs EXCEPT ![n][f.t] = @ + 1]
       /\ log' = [log EXCEPT ![n] = [NoLog EXCEPT !.t = f.t]]
       /\ stack' = [stack EXCEPT ![Len(stack)] = [f EXCEPT !.pc = "run"]]
       /\ UNCHANGED <<node_value, previous, overflow, host, returned>>
  ELSE IF InputTuple_next(n, f.args) # 0
       THEN /\ Call(Sockets(n)[InputTuple_next(n, f.args)], f.t)
            /\ UNCHANGED <<node_t, node_value, previous, runs, log>>
       ELSE LET v == LowPass_process(previous[n], f.args[1], f.args[2]) IN
            /\ previous' = [previous EXCEPT ![n] = v]
            /\ node_value' = [node_value EXCEPT ![n] = v]
            /\ log' = [log EXCEPT ![n].args = f.args, ![n].done = TRUE]
            /\ Return(v)
            /\ UNCHANGED <<node_t, runs>>

\* Node2::get as it would be with the time stamp stored after the routine:
\*   if (t != this->t) { value = inputs.get_and_process(t, *this); this->t = t; }
Node2_get_late(f) ==
  LET n == f.obj IN
  IF f.pc = "enter"
  THEN IF f.t # node_t[n]
       THEN /\ runs' = [runs EXCEPT ![n][f.t] = @ + 1]
            /\ log' = [log EXCEPT ![n] = [NoLog EXCEPT !.t = f.t]]
            /\ stack' = [stack EXCEPT ![Len(stack)] = [f EXCEPT !.pc = "run"]]
            /\ UNCHANGED <<node_t, node_value, previous, overflow, host,
                           returned>>
       ELSE /\ Return(node_value[n])
            /\ UNCHANGED <<node_t, node_value, previous, runs, log>>
  ELSE IF InputTuple_next(n, f.args) # 0
       THEN /\ Call(Sockets(n)[InputTuple_next(n, f.args)], f.t)
            /\ UNCHANGED <<node_t, node_value, previous, runs, log>>
       ELSE LET v == LowPass_process(previous[n], f.args[1], f.args[2]) IN
            /\ previous' = [previous EXCEPT ![n] = v]
            /\ node_value' = [node_value EXCEPT ![n] = v]
            /\ node_t' = [node_t EXCEPT ![n] = f.t]
            /\ log' = [log EXCEPT ![n].args = f.args, ![n].done = TRUE]
            /\ Return(v)
            /\ UNCHANGED runs

\* Node2::get (with InputTuple::get_and_process and LowPass::process)
Node2_get(f) ==
  LET n == f.obj IN
  IF f.pc = "enter"
  THEN IF f.t # node_t[n]
       THEN /\ node_t' = [node_t EXCEPT ![n] = f.t]
            /\ runs' = [runs EXCEPT ![n][f.t] = @ + 1]
            /\ log' = [log EXCEPT ![n] = [NoLog EXCEPT !.t = f.t]]
            /\ stack' = [stack EXCEPT ![Len(stack)] = [f EXCEPT !.pc = "run"]]
            /\ UNCHANGED <<node_value, previous, overflow, host, returned>>
       ELSE /\ Return(node_value[n])
            /\ UNCHANGED <<node_t, node_value, previous, runs, log>>
  ELSE IF InputTuple_next(n, f.args) # 0
       THEN /\ Call(Sockets(n)[InputTuple_next(n, f.args)], f.t)
            /\ UNCHANGED <<node_t, node_value, previous, runs, log>>
       ELSE LET v == LowPass_process(previous[n], f.args[1], f.args[2]) IN
            /\ previous' = [previous EXCEPT ![n] = v]
            /\ node_value' = [node_value EXCEPT ![n] = v]
            /\ log' = [log EXCEPT ![n].args = f.args, ![n].done = TRUE]
            /\ Return(v)
            /\ UNCHANGED <<node_t, runs>>

\* the host pulls a node: n.get(t)
Get ==
  /\ Idle
  /\ pulls < MaxPulls
  /\ \E n \in Nodes, t \in Times :
       /\ stack' = <<Frame(n, t)>>
       /\ host' = [obj |-> n, t |-> t, ret |-> 0]
       /\ mono' = (mono /\ t > host.t)
       /\ forward' = (forward /\ t >= host.t)
  /\ pulls' = pulls + 1
  /\ UNCHANGED <<output, ivalue, node_t, node_value, previous, overflow,
                 connects, runs, returned, log, wvars, avars, xvars>>

InputStep ==
  /\ stack # <<>> /\ ~overflow
  /\ Top.obj \in Inputs
  /\ Input_get(Top)
  /\ UNCHANGED <<output, ivalue, pulls, connects, mono, forward, wvars, avars, xvars>>

NodeStep ==
  /\ stack # <<>> /\ ~overflow
  /\ Top.obj \in GainNodes
  /\ Node_get(Top)
  /\ UNCHANGED <<output, ivalue, pulls, connects, mono, forward, wvars, avars, xvars>>

Node2Step ==
  /\ stack # <<>> /\ ~overflow
  /\ Top.obj \in Node2Nodes
  /\ Node2_get(Top)
  /\ UNCHANGED <<output, ivalue, pulls, connects, mono, forward, wvars, avars, xvars>>

Step == InputStep \/ NodeStep \/ Node2Step

\* wiring operations on fresh nodes
NextWire == Connect \/ ConnectValue

SpecWire == InitFresh /\ [][NextWire]_vars

\* pulls on a wired graph
Next == Get \/ InputStep \/ NodeStep \/ Node2Step

Spec == InitWired /\ [][Next]_vars

\* a pull in progress keeps running
FairSpec == Spec /\ WF_vars(Step)

\* ---------------------------------------------------------------- WAVOutput
\* the WAV header: RIFF, size, WAVE, "fmt ", the 16 byte fmt chunk with its
\* size, "data" and the data size
HeaderBytes == 4 + 4 + 4 + 4 + 4 + 16 + 4 + 4
\* one frame: two int16_t
FrameBytes == 2 + 2

\* WAVOutput::run as it would be with `for (int t = 0; t < frames; ++t)`
WAVOutput_run_from0(n, frames) ==
  wav' = [pc |-> "loop", input |-> n, frames |-> frames - 1, t |-> 0,
          bytes |-> HeaderBytes]

\* WAVOutput::run up to its loop: the header is written, t = 1
WAVOutput_run(n, frames) ==
  wav' = [pc |-> "loop", input |-> n, frames |-> frames, t |-> 1,
          bytes |-> HeaderBytes]

Run ==
  /\ wav.pc = "idle"
  /\ \E n \in Nodes, frames \in 0..MaxFrames : WAVOutput_run(n, frames)
  /\ UNCHANGED <<gvars, wav_pulled, avars, xvars>>

\* the loop test t <= frames and, if it holds, the call input.get(t)
RunPull ==
  /\ wav.pc = "loop"
  /\ IF wav.t <= wav.frames
     THEN /\ stack' = <<Frame(wav.input, wav.t)>>
          /\ host' = [obj |-> wav.input, t |-> wav.t, ret |-> 0]
          /\ mono' = (mono /\ wav.t > host.t)
          /\ forward' = (forward /\ wav.t >= host.t)
          /\ pulls' = pulls + 1
          /\ wav_pulled' = Append(wav_pulled, wav.t)
          /\ wav' = [wav EXCEPT !.pc = "pulled"]
     ELSE /\ wav' = [wav EXCEPT !.pc = "done"]
          /\ UNCHANGED <<stack, host, mono, forward, pulls, wav_pulled>>
  /\ UNCHANGED <<output, ivalue, node_t, node_value, previous, overflow,
                 connects, runs, returned, log, avars, xvars>>

\* input.get(t) has returned: the two channels are written, ++t
RunWrite ==
  /\ wav.pc = "pulled"
  /\ Idle
  /\ wav' = [wav EXCEPT !.pc = "loop", !.t = @ + 1, !.bytes = @ + FrameBytes]
  /\ UNCHANGED <<gvars, wav_pulled, avars, xvars>>

NextWAV == Run \/ RunPull \/ RunWrite \/ InputStep \/ NodeStep \/ Node2Step

SpecWAV == InitWired /\ [][NextWAV]_vars

\* ---------------------------------------------------------------- MIDIEvent
\* MIDIEvent::create_note_on, MIDIEvent::create_note_off: 0x90 | channel and
\* 0x80 | channel, for a channel below 16
MIDIEvent_create_note_on(note, velocity, channel) ==
  [status |-> 144 + channel, data1 |-> note, data2 |-> velocity]
MIDIEvent_create_note_off(note, velocity, channel) ==
  [status |-> 128 + channel, data1 |-> note, data2 |-> velocity]

\* MIDIEvent::is_note_on, is_note_off: (status & 0xF0) == 0x90, == 0x80
MIDIEvent_is_note_on(e) == e.status \div 16 = 9
MIDIEvent_is_note_off(e) == e.status \div 16 = 8

\* the events an ADSR is fed: none, a clock tick, and note-ons and note-offs
\* for three note numbers (0 among them), the note-ons on two channels
NoteNumbers == {0, 60, 62}
Channels == {0, 1}
Events ==
  {MIDIEvent_empty, [status |-> 248, data1 |-> 0, data2 |-> 0]}
  \cup {MIDIEvent_create_note_on(n, 100, c) : n \in NoteNumbers, c \in Channels}
  \cup {MIDIEvent_create_note_off(n, 127, 0) : n \in NoteNumbers}

\* ---------------------------------------------------------------- ADSR
\* ADSR values are multiples of 1/One. The parameters attack and release (in
\* ms, positive) enter process only through the per-call steps
\* 1000.f / attack * DT and 1000.f / release * DT, so they are given as these
\* steps, in grid units: a short one, one that does not divide One, and one
\* that overshoots at once. On such values float addition and subtraction are
\* exact. decay enters through the factor pow(0.01f, DT * 1000.f / decay) in
\* (0, 1], given in halves; sustain is a level in [0, 1].
AttackSteps == {1, 3, 2 * One + 4}
ReleaseSteps == {1, 3, 2 * One + 4}
DecayFactors == {1, 2}
SustainLevels == {0, One \div 2, One}
Params == [attack : AttackSteps, decay : DecayFactors, sustain : SustainLevels,
           release : ReleaseSteps]

\* the event handling as it would be without `&& event.data1 == note`
ADSR_event_any_off(a, event) ==
  IF MIDIEvent_is_note_on(event)
  THEN LET slide == a.note # 0 IN
       [a EXCEPT !.note = event.data1,
                 !.state = IF ~slide THEN "Attack" ELSE a.state]
  ELSE IF MIDIEvent_is_note_off(event)
       THEN [a EXCEPT !.note = 0, !.state = "Release"]
       ELSE a

\* the event handling as it would be without `if (!slide)`
ADSR_event_restart(a, event) ==
  IF MIDIEvent_is_note_on(event)
  THEN [a EXCEPT !.note = event.data1, !.state = "Attack"]
  ELSE IF MIDIEvent_is_note_off(event) /\ event.data1 = a.note
       THEN [a EXCEPT !.note = 0, !.state = "Release"]
       ELSE a

\* ADSR::process, the event: lines 663-673
ADSR_event(a, event) ==
  IF MIDIEvent_is_note_on(event)
  THEN LET slide == a.note # 0 IN
       [a EXCEPT !.note = event.data1,
                 !.state = IF ~slide THEN "Attack" ELSE a.state]
  ELSE IF MIDIEvent_is_note_off(event) /\ event.data1 = a.note
       THEN [a EXCEPT !.note = 0, !.state = "Release"]
       ELSE a

\* case State::Attack as it would be with `if (value > 1.f)`
ADSR_attack_strict(a, step) ==
  LET v == a.value + step IN
  IF v > One THEN [a EXCEPT !.value = One, !.state = "Decay"]
  ELSE [a EXCEPT !.value = v]

\* case State::Attack
ADSR_attack(a, step) ==
  LET v == a.value + step IN
  IF v >= One THEN [a EXCEPT !.value = One, !.state = "Decay"]
  ELSE [a EXCEPT !.value = v]

\* case State::Decay: sustain + (value - sustain) * factor, rounded down to
\* the grid
ADSR_decay(a, sustain, factor) ==
  [a EXCEPT !.value = sustain + ((a.value - sustain) * factor) \div 2]

\* case State::Release as it would be with `if (value < 0.f)`
ADSR_release_strict(a, step) ==
  LET v == a.value - step IN
  IF v < 0 THEN [a EXCEPT !.value = 0, !.state = "Sustain"]
  ELSE [a EXCEPT !.value = v]

\* case State::Release
ADSR_release(a, step) ==
  LET v == a.value - step IN
  IF v <= 0 THEN [a EXCEPT !.value = 0, !.state = "Sustain"]
  ELSE [a EXCEPT !.value = v]

\* ADSR::process, the switch: lines 674-694
ADSR_switch(a, p) ==
  CASE a.state = "Attack" -> ADSR_attack(a, p.attack)
    [] a.state = "Decay" -> ADSR_decay(a, p.sustain, p.decay)
    [] a.state = "Sustain" -> a
    [] a.state = "Release" -> ADSR_release(a, p.release)

\* ADSR::process
ADSR_process(a, event, p) == ADSR_switch(ADSR_event(a, event), p)

Process ==
  /\ \E event \in Events, p \in Params :
       /\ adsr' = ADSR_process(adsr, event, p)
       /\ adsr_call' = [prev |-> adsr, event |-> event,
                        entered |-> ADSR_event(adsr, event).state,
                        ret |-> adsr'.value,
                        note_on_seen |-> adsr_call.note_on_seen
                                          \/ MIDIEvent_is_note_on(event)]
  /\ UNCHANGED <<gvars, wvars, xvars>>

NextADSR == Process

SpecADSR == InitEnvelope /\ [][NextADSR]_vars

\* the host calls process once per sample, for ever
FairSpecADSR == SpecADSR /\ WF_vars(Process)

\* ---------------------------------------------------------------- NotePattern
\* the characters of patterns, the string terminator, and all strings of up to
\* MaxLen characters
Chars == {"0", "5", "8", " ", "-"}
Nul == "NUL"
Strings == UNION {[1..k -> Chars] : k \in 0..MaxLen}

\* c >= '0' && c <= '8', and c - '0'
Digits == <<"0", "1", "2", "3", "4", "5", "6", "7", "8">>
IsDigit(c) == \E d \in 1..Len(Digits) : Digits[d] = c
DigitValue(c) == (CHOOSE d \in 1..Len(Digits) : Digits[d] = c) - 1

\* pattern[i]: a character, the terminator, or, past the terminator,
\* whatever the memory there holds
CharAt(pattern, i, junk) ==
  IF i < Len(pattern) THEN pattern[i + 1]
  ELSE IF i = Len(pattern) THEN Nul ELSE junk

\* the clocks a pattern is called with: MIDIEvent(0xF8, 0, 0) and MIDIEvent()
MIDIEvent_clock == [status |-> 248, data1 |-> 0, data2 |-> 0]
Clocks == {MIDIEvent_clock, MIDIEvent_empty}

\* MIDIEvent::operator bool: status & 0x80
MIDIEvent_bool(e) == (e.status \div 128) % 2 = 1

\* NotePattern::process as it would be with `if (prev != ' ')` alone
NotePattern_process_off(np, clock, junk) ==
  LET at(i) == CharAt(np.pattern, i, junk) IN
  IF clock.status # 248
  THEN [np |-> np, event |-> MIDIEvent_empty, reads |-> <<>>]
  ELSE IF np.t % 6 = 0
  THEN LET c == at(np.t \div 6) IN
       [np |-> [np EXCEPT !.t = @ + 1],
        event |-> IF IsDigit(c)
                  THEN MIDIEvent_create_note_on(np.note, DigitValue(c) * 15, 0)
                  ELSE MIDIEvent_empty,
        reads |-> <<np.t \div 6>>]
  ELSE IF np.t % 6 = 5
  THEN LET prev == at(np.t \div 6)
           t1 == np.t + 1
           t2 == IF at(t1 \div 6) = Nul THEN 0 ELSE t1
       IN
       [np |-> [np EXCEPT !.t = t2],
        event |-> IF prev # " "
                  THEN MIDIEvent_create_note_off(np.note, 127, 0)
                  ELSE MIDIEvent_empty,
        reads |-> <<np.t \div 6, t1 \div 6, t2 \div 6>>]
  ELSE [np |-> [np EXCEPT !.t = @ + 1], event |-> MIDIEvent_empty,
        reads |-> <<>>]

\* NotePattern::process as it would be with `if (next != '-')` alone
NotePattern_process_next(np, clock, junk) ==
  LET at(i) == CharAt(np.pattern, i, junk) IN
  IF clock.status # 248
  THEN [np |-> np, event |-> MIDIEvent_empty, reads |-> <<>>]
  ELSE IF np.t % 6 = 0
  THEN LET c == at(np.t \div 6) IN
       [np |-> [np EXCEPT !.t = @ + 1],
        event |-> IF IsDigit(c)
                  THEN MIDIEvent_create_note_on(np.note, DigitValue(c) * 15, 0)
                  ELSE MIDIEvent_empty,
        reads |-> <<np.t \div 6>>]
  ELSE IF np.t % 6 = 5
  THEN LET prev == at(np.t \div 6)
           t1 == np.t + 1
           t2 == IF at(t1 \div 6) = Nul THEN 0 ELSE t1
           next == at(t2 \div 6)
       IN
       [np |-> [np EXCEPT !.t = t2],
        event |-> IF next # "-"
                  THEN MIDIEvent_create_note_off(np.note, 127, 0)
                  ELSE MIDIEvent_empty,
        reads |-> <<np.t \div 6, t1 \div 6, t2 \div 6>>]
  ELSE [np |-> [np EXCEPT !.t = @ + 1], event |-> MIDIEvent_empty,
        reads |-> <<>>]

\* NotePattern::process as it would be without `if (pattern[t/6] == '\0') t = 0`
NotePattern_process_nowrap(np, clock, junk) ==
  LET at(i) == CharAt(np.pattern, i, junk) IN
  IF clock.status # 248
  THEN [np |-> np, event |-> MIDIEvent_empty, reads |-> <<>>]
  ELSE IF np.t % 6 = 0
  THEN LET c == at(np.t \div 6) IN
       [np |-> [np EXCEPT !.t = @ + 1],
        event |-> IF IsDigit(c)
                  THEN MIDIEvent_create_note_on(np.note, DigitValue(c) * 15, 0)
                  ELSE MIDIEvent_empty,
        reads |-> <<np.t \div 6>>]
  ELSE IF np.t % 6 = 5
  THEN LET prev == at(np.t \div 6)
           t1 == np.t + 1
           t2 == t1
           next == at(t2 \div 6)
       IN
       [np |-> [np EXCEPT !.t = t2],
        event |-> IF prev # " " /\ next # "-"
                  THEN MIDIEvent_create_note_off(np.note, 127, 0)
                  ELSE MIDIEvent_empty,
        reads |-> <<np.t \div 6, t1 \div 6, t2 \div 6>>]
  ELSE [np |-> [np EXCEPT !.t = @ + 1], event |-> MIDIEvent_empty,
        reads |-> <<>>]

\* NotePattern::process: the object after the call, the event returned and the
\* indices of pattern read
NotePattern_process(np, clock, junk) ==
  LET at(i) == CharAt(np.pattern, i, junk) IN
  IF clock.status # 248
  THEN [np |-> np, event |-> MIDIEvent_empty, reads |-> <<>>]
  ELSE IF np.t % 6 = 0
  THEN LET c == at(np.t \div 6) IN
       [np |-> [np EXCEPT !.t = @ + 1],
        event |-> IF IsDigit(c)
                  THEN MIDIEvent_create_note_on(np.note, DigitValue(c) * 15, 0)
                  ELSE MIDIEvent_empty,
        reads |-> <<np.t \div 6>>]
  ELSE IF np.t % 6 = 5
  THEN LET prev == at(np.t \div 6)
           t1 == np.t + 1
           t2 == IF at(t1 \div 6) = Nul THEN 0 ELSE t1
           next == at(t2 \div 6)
       IN
       [np |-> [np EXCEPT !.t = t2],
        event |-> IF prev # " " /\ next # "-"
                  THEN MIDIEvent_create_note_off(np.note, 127, 0)
                  ELSE MIDIEvent_empty,
        reads |-> <<np.t \div 6, t1 \div 6, t2 \div 6>>]
  ELSE [np |-> [np EXCEPT !.t = @ + 1], event |-> MIDIEvent_empty,
        reads |-> <<>>]

\* "on", "off" or "none"
EventKind(e) ==
  IF MIDIEvent_is_note_on(e) THEN "on"
  ELSE IF MIDIEvent_is_note_off(e) THEN "off" ELSE "none"

\* the clock ticks one NotePattern is followed for
MaxTicks == 6 * MaxLen + 12

\* the host calls process(clock)
NotePatternProcess ==
  \E clock \in Clocks, junk \in Chars \cup {Nul} :
    LET r == NotePattern_process(note_pattern, clock, junk)
        tick == clock.status = 248
    IN
    /\ tick => np_call.ticks < MaxTicks
    /\ note_pattern' = r.np
    /\ np_call' =
         [ticks |-> IF tick THEN np_call.ticks + 1 ELSE np_call.ticks,
          clock |-> clock,
          event |-> r.event,
          reads |-> r.reads,
          last |-> IF MIDIEvent_bool(r.event) THEN EventKind(r.event)
                   ELSE np_call.last,
          before |-> IF MIDIEvent_bool(r.event) THEN np_call.last
                     ELSE np_call.before,
          note_on |-> IF MIDIEvent_is_note_on(r.event) THEN r.event
                      ELSE np_call.note_on]
    /\ UNCHANGED <<gvars, wvars, avars, pvars, uvars, cvars, fvars>>

InitNotePattern ==
  /\ InitBase
  /\ note_pattern \in {NotePattern(60, p) : p \in Strings}
  /\ np_call = NoTick
  /\ RestPattern /\ RestAutomation /\ RestClock /\ RestFrequency

NextNotePattern == NotePatternProcess

SpecNotePattern == InitNotePattern /\ [][NextNotePattern]_vars

\* ---------------------------------------------------------------- Pattern
\* RingBuffer::operator[]: the element of data that [i] refers to
RingBuffer_index(q, i) == (q.start + i) % NPatterns

\* Queue::put: buffer[size] = element; ++size
Queue_put(q, element) ==
  [q EXCEPT !.data[RingBuffer_index(q, q.size)] = element, !.size = @ + 1]

\* Queue::take: element = buffer[0]; ++buffer; --size
Queue_take(q) ==
  [queue |-> [q EXCEPT !.start = (@ + 1) % NPatterns, !.size = @ - 1],
   element |-> q.data[RingBuffer_index(q, 0)]]

\* Queue::is_empty
Queue_is_empty(q) == q.size = 0

\* the queued elements, oldest first: buffer[0] .. buffer[size - 1]
QueueContents(q) == [k \in 1..q.size |-> q.data[RingBuffer_index(q, k - 1)]]

\* the loop of Pattern::process from patterns[i] on: each pattern is called
\* with the clock and a non-empty event is put into the queue; c collects the
\* events put and whether a put hit an element that was not taken yet
RECURSIVE Pattern_feed(_, _, _, _, _, _)
Pattern_feed(ps, q, c, clock, junk, i) ==
  IF i > NPatterns
  THEN [patterns |-> ps, queue |-> q, call |-> c]
  ELSE LET r == NotePattern_process(ps[i], clock, junk) IN
       IF MIDIEvent_bool(r.event)
       THEN Pattern_feed([ps EXCEPT ![i] = r.np], Queue_put(q, r.event),
                         [c EXCEPT !.produced = Append(@, r.event),
                                   !.overwritten = @ \/ q.size >= NPatterns],
                         clock, junk, i + 1)
       ELSE Pattern_feed([ps EXCEPT ![i] = r.np], q, c, clock, junk, i + 1)

\* the patterns a Pattern is built from
PatternStrings == {<<"5">>, <<"5", "-">>, <<" ", "8">>}

\* the host calls Pattern::process(clock)
PatternProcess ==
  \E clock \in Clocks, junk \in Chars \cup {Nul} :
    LET fed == Pattern_feed(patterns, queue, pattern_call, clock, junk, 1)
        tick == clock.status = 248
    IN
    /\ tick => pattern_call.ticks < MaxTicks
    /\ patterns' = fed.patterns
    /\ IF ~Queue_is_empty(fed.queue)
       THEN LET taken == Queue_take(fed.queue) IN
            /\ queue' = taken.queue
            /\ pattern_call' =
                 [fed.call EXCEPT !.ret = taken.element,
                                  !.returned = Append(@, taken.element),
                                  !.ticks = IF tick THEN @ + 1 ELSE @]
       ELSE /\ queue' = fed.queue
            /\ pattern_call' =
                 [fed.call EXCEPT !.ret = MIDIEvent_empty,
                                  !.ticks = IF tick THEN @ + 1 ELSE @]
    /\ UNCHANGED <<gvars, wvars, avars, nvars, uvars, cvars, fvars>>

InitSequencer ==
  /\ InitBase
  /\ InitPattern(PatternStrings)
  /\ RestNotePattern /\ RestAutomation /\ RestClock /\ RestFrequency

NextPattern == PatternProcess

SpecPattern == InitSequencer /\ [][NextPattern]_vars

\* ---------------------------------------------------------------- MIDIClock
\* the per-call increments bpm / 60.f * 24.f * DT the clock is called with, in
\* grid units: none, fractions of 1, 1, and more than 1
Increments == 0..(One + One \div 2)

\* the phase one clock is followed for
MaxPhase == 3 * One

\* MIDIClock::process as it would be with `if (value >= 1.f)`
MIDIClock_process_ge(c, inc) ==
  LET v == c.value + inc IN
  IF v >= One
  THEN [clock |-> [value |-> v - One], event |-> MIDIEvent_clock]
  ELSE [clock |-> [value |-> v], event |-> MIDIEvent_empty]

\* MIDIClock::process, given bpm / 60.f * 24.f * DT: the object after the call
\* and the event returned
MIDIClock_process(c, inc) ==
  LET v == c.value + inc IN
  IF v > One
  THEN [clock |-> [value |-> v - One], event |-> MIDIEvent_clock]
  ELSE [clock |-> [value |-> v], event |-> MIDIEvent_empty]

\* the host calls process(bpm)
ClockProcess ==
  \E inc \in Increments :
    LET r == MIDIClock_process(midi_clock, inc) IN
    /\ clock_call.phase + inc <= MaxPhase
    /\ midi_clock' = r.clock
    /\ clock_call' =
         [called |-> TRUE, prev |-> midi_clock.value, inc |-> inc,
          event |-> r.event,
          phase |-> clock_call.phase + inc,
          ticks |-> IF r.event.status = 248 THEN clock_call.ticks + 1
                    ELSE clock_call.ticks,
          in_range |-> clock_call.in_range /\ inc > 0 /\ inc <= One]
    /\ UNCHANGED <<gvars, wvars, avars, nvars, pvars, uvars, fvars>>

InitClock ==
  /\ InitBase
  /\ RestClock
  /\ RestNotePattern /\ RestPattern /\ RestAutomation /\ RestFrequency

NextClock == ClockProcess

SpecClock == InitClock /\ [][NextClock]_vars

\* ---------------------------------------------------------------- Automation
\* integer division that truncates toward zero, as float to int conversion
\* does (b > 0)
Trunc(a, b) == IF a >= 0 THEN a \div b ELSE -((-a) \div b)

\* float addition, subtraction and division by an int
FNeg(x) == IF x.k = "nan" THEN x ELSE [x EXCEPT !.v = -x.v]
FAdd(x, y) ==
  IF x.k = "nan" \/ y.k = "nan" THEN NaN
  ELSE IF x.k = "inf" THEN (IF y.k = "inf" /\ y.v # x.v THEN NaN ELSE x)
  ELSE IF y.k = "inf" THEN y
  ELSE Num(x.v + y.v)
FSub(x, y) == FAdd(x, FNeg(y))
FDiv(x, t) ==
  IF x.k = "nan" THEN NaN
  ELSE IF t = 0
       THEN (IF x.k = "inf" THEN x
             ELSE IF x.v > 0 THEN Inf(1) ELSE IF x.v < 0 THEN Inf(-1) ELSE NaN)
  ELSE IF x.k = "inf" THEN (IF t > 0 THEN x ELSE FNeg(x))
  ELSE IF t > 0 THEN Num(Trunc(x.v, t)) ELSE Num(Trunc(-x.v, -t))

\* *cursor: a character or, at the end of the script, the terminator
Automation_at(script, cursor) ==
  IF cursor < Len(script) THEN script[cursor + 1] ELSE Nul

\* *cursor >= '0' && *cursor <= '9', and *cursor - '0'
Decimals == <<"0", "1", "2", "3", "4", "5", "6", "7", "8", "9">>
IsDecimal(c) == \E d \in 1..Len(Decimals) : Decimals[d] = c
DecimalValue(c) == (CHOOSE d \in 1..Len(Decimals) : Decimals[d] = c) - 1

\* the two while loops of parse_number: the digits before the '.', with
\* number = number * 10 + digit, and those after it, each a tenth of the one
\* before; the number is num / den
RECURSIVE ParseDigits(_, _, _, _, _)
ParseDigits(script, cursor, num, den, fraction) ==
  IF IsDecimal(Automation_at(script, cursor))
  THEN ParseDigits(script, cursor + 1,
                   num * 10 + DecimalValue(Automation_at(script, cursor)),
                   IF fraction THEN den * 10 ELSE den, fraction)
  ELSE [num |-> num, den |-> den, cursor |-> cursor]

\* Automation::parse_number: the number read, sign * num / den, and the
\* cursor after it
Automation_parse_number(script, cursor) ==
  LET sign == IF Automation_at(script, cursor) = "-" THEN -1 ELSE 1
      c0 == IF sign = -1 THEN cursor + 1 ELSE cursor
      int == ParseDigits(script, c0, 0, 1, FALSE)
      all == IF Automation_at(script, int.cursor) = "."
             THEN ParseDigits(script, int.cursor + 1, int.num, 1, TRUE)
             ELSE int
  IN [num |-> sign * all.num, den |-> all.den, cursor |-> all.cursor]

\* Automation::skip_space: the cursor after the spaces
RECURSIVE Automation_skip_space(_, _)
Automation_skip_space(script, cursor) ==
  IF Automation_at(script, cursor) = " "
  THEN Automation_skip_space(script, cursor + 1)
  ELSE cursor

\* a parsed number as a float in units of DT, which is also number / DT
\* converted to int
InTicks(n) == Trunc(n.num * TicksPerSecond, n.den)

\* Automation::process as it would be without `delta = 0.f` at the end of the
\* script
Automation_process_on(a) ==
  LET value == FAdd(a.value, a.delta)
      t == a.t - 1
  IN
  IF t = 0
  THEN IF Automation_at(a.script, a.cursor) # Nul
       THEN LET n == Automation_parse_number(a.script, a.cursor) IN
            IF Automation_at(a.script, n.cursor) = "/"
            THEN LET d == Automation_parse_number(a.script, n.cursor + 1) IN
                 [a |-> [a EXCEPT !.value = value,
                           !.t = InTicks(d),
                           !.delta = FDiv(FSub(Num(InTicks(n)), value), InTicks(d)),
                           !.cursor = Automation_skip_space(a.script, d.cursor)],
                  parsed |-> "ramp", target |-> Num(InTicks(n))]
            ELSE [a |-> [a EXCEPT !.value = Num(InTicks(n)),
                           !.delta = Num(0),
                           !.t = 1,
                           !.cursor = Automation_skip_space(a.script, n.cursor)],
                  parsed |-> "instant", target |-> Num(InTicks(n))]
       ELSE [a |-> [a EXCEPT !.value = value, !.t = t],
             parsed |-> "end", target |-> value]
  ELSE [a |-> [a EXCEPT !.value = value, !.t = t],
        parsed |-> "none", target |-> value]

\* Automation::process: the object after the call (its value is what the call
\* returns), and what the call found at the cursor, if it looked
Automation_process(a) ==
  LET value == FAdd(a.value, a.delta)
      t == a.t - 1
  IN
  IF t = 0
  THEN IF Automation_at(a.script, a.cursor) # Nul
       THEN LET n == Automation_parse_number(a.script, a.cursor) IN
            IF Automation_at(a.script, n.cursor) = "/"
            THEN LET d == Automation_parse_number(a.script, n.cursor + 1) IN
                 [a |-> [a EXCEPT !.value = value,
                           !.t = InTicks(d),
                           !.delta = FDiv(FSub(Num(InTicks(n)), value), InTicks(d)),
                           !.cursor = Automation_skip_space(a.script, d.cursor)],
                  parsed |-> "ramp", target |-> Num(InTicks(n))]
            ELSE [a |-> [a EXCEPT !.value = Num(InTicks(n)),
                           !.delta = Num(0),
                           !.t = 1,
                           !.cursor = Automation_skip_space(a.script, n.cursor)],
                  parsed |-> "instant", target |-> Num(InTicks(n))]
       ELSE [a |-> [a EXCEPT !.value = value, !.delta = Num(0), !.t = t],
             parsed |-> "end", target |-> value]
  ELSE [a |-> [a EXCEPT !.value = value, !.t = t],
        parsed |-> "none", target |-> value]

\* the scripts: "0 1/1", "", "0 1/0 2", "1/0", "0 0/0", "0 1/.0001 0",
\* "-1 1/.0001", "2" and "1/.0001 2/.0001  "
Script_0_1s == <<"0", " ", "1", "/", "1">>
Scripts ==
  {Script_0_1s,
   <<>>,
   <<"0", " ", "1", "/", "0", " ", "2">>,
   <<"1", "/", "0">>,
   <<"0", " ", "0", "/", "0">>,
   <<"0", " ", "1", "/", ".", "0", "0", "0", "1", " ", "0">>,
   <<"-", "1", " ", "1", "/", ".", "0", "0", "0", "1">>,
   <<"2">>,
   <<"1", "/", ".", "0", "0", "0", "1", " ",
     "2", "/", ".", "0", "0", "0", "1", " ", " ">>}

\* the calls one Automation is followed for
MaxCalls == TicksPerSecond + 8

\* the host calls process()
AutomationProcess ==
  LET r == Automation_process(automation)
      c == automation_call
      now == c.calls + 1
  IN
  /\ c.calls < MaxCalls
  /\ automation' = r.a
  /\ automation_call' =
       [calls |-> now,
        ret |-> r.a.value,
        parses |-> IF r.parsed \in {"ramp", "instant"} THEN c.parses + 1
                   ELSE c.parses,
        ended |-> c.ended \/ r.parsed = "end",
        end_value |-> IF r.parsed = "end" THEN r.a.value ELSE c.end_value,
        end_parses |-> IF r.parsed = "end" THEN c.parses ELSE c.end_parses,
        ramp |-> IF r.parsed = "ramp"
                 THEN [at |-> now, ticks |-> r.a.t, target |-> r.target]
                 ELSE c.ramp,
        zero |-> IF r.parsed = "ramp" /\ r.a.t = 0
                 THEN [at |-> now, target |-> r.target]
                 ELSE c.zero]
  /\ UNCHANGED <<gvars, wvars, avars, nvars, pvars, cvars, fvars>>

InitAutomation ==
  /\ InitBase
  /\ automation \in {Automation(s) : s \in Scripts}
  /\ automation_call = NoAutomationCall
  /\ RestNotePattern /\ RestPattern /\ RestClock /\ RestFrequency

NextAutomation == AutomationProcess

SpecAutomation == InitAutomation /\ [][NextAutomation]_vars

\* ---------------------------------------------------------------- Frequency
\* the nearest multiple of the grid unit to a / b (b > 0): the rounding of a
\* float result
Round(a, b) == (2 * a + b) \div (2 * b)

\* 440.f * std::pow(2.f, (note-69)/12.f), on the logarithmic grid
Frequency_of(note) == (note - 69) * Semitone

\* std::pow(target_frequency / frequency, DT / 0.05f), on the logarithmic
\* grid: the step from frequency to target_frequency divided by GlideCalls and
\* rounded; 0 is the factor 1.f
Frequency_factor(target_frequency, f) ==
  Round(target_frequency - f, GlideCalls)

\* Frequency::process: the object after the call; its frequency is what the
\* call returns
Frequency_process(f, event) ==
  LET slide == f.note # 0
      on == IF MIDIEvent_is_note_on(event)
            THEN IF slide
                 THEN [f EXCEPT !.note = event.data1,
                         !.target_frequency = Frequency_of(event.data1),
                         !.factor = Frequency_factor(Frequency_of(event.data1),
                                                     f.frequency)]
                 ELSE [f EXCEPT !.note = event.data1,
                         !.target_frequency = Frequency_of(event.data1),
                         !.frequency = Frequency_of(event.data1),
                         !.factor = 0]
            ELSE IF MIDIEvent_is_note_off(event) /\ event.data1 = f.note
                 THEN [f EXCEPT !.note = 0]
                 ELSE f
      moved == on.frequency + on.factor
  IN IF \/ on.factor > 0 /\ moved > on.target_frequency
        \/ on.factor < 0 /\ moved < on.target_frequency
     THEN [on EXCEPT !.frequency = on.target_frequency, !.factor = 0]
     ELSE [on EXCEPT !.frequency = moved]

\* the notes played, the events process is called with, and what the
\* uninitialized members may hold
FrequencyNotes == {60, 61, 62}
FrequencyEvents ==
  {MIDIEvent_empty, MIDIEvent_clock}
  \cup {MIDIEvent_create_note_on(n, 100, 0) : n \in FrequencyNotes}
  \cup {MIDIEvent_create_note_off(n, 127, 0) : n \in FrequencyNotes}
UninitFrequency == {0, -7 * Semitone}

\* the host calls process(event)
FrequencyProcess ==
  \E event \in FrequencyEvents :
    LET r == Frequency_process(frequency, event) IN
    /\ frequency' = r
    /\ frequency_call' =
         [called |-> TRUE, event |-> event, prev |-> frequency.frequency,
          ret |-> r.frequency,
          glide |-> IF MIDIEvent_is_note_on(event) THEN frequency.note # 0
                    ELSE frequency_call.glide,
          from |-> IF MIDIEvent_is_note_on(event) THEN frequency.frequency
                   ELSE frequency_call.from]
    /\ UNCHANGED <<gvars, wvars, avars, nvars, pvars, uvars, cvars>>

InitFrequency ==
  /\ InitBase
  /\ \E f \in UninitFrequency, g \in UninitFrequency :
       frequency = Frequency_init(f, g)
  /\ frequency_call = NoFrequencyCall
  /\ RestNotePattern /\ RestPattern /\ RestAutomation /\ RestClock

NextFrequency == FrequencyProcess

SpecFrequency == InitFrequency /\ [][NextFrequency]_vars

\* ---------------------------------------------------------------- claims
\* C1: for a memoizing node n and a time t, once the host has called n.get(t)
\* (any number of times, never having gone back in time), n's routine was
\* invoked exactly once for t and every call returned the same value.
C1_MemoizedOnce ==
  (Idle /\ host.obj \in Nodes /\ forward) =>
     /\ runs[host.obj][host.t] = 1
     /\ Cardinality(returned[host.obj][host.t]) = 1

\* C2: while the host pulls an acyclic graph at strictly increasing times, no
\* node runs its routine more than once for one time, whatever the fan-out.
C2_OncePerStep ==
  (mono /\ Acyclic(output)) => \A n \in Nodes : \A t \in Stamps : runs[n][t] <= 1

\* gain has pulled lp through both of its sockets at times 1 and 2, and lp ran
\* once for each
C2_Witness ==
  /\ Idle /\ mono /\ Acyclic(output)
  /\ output["gain.input"] = "lp" /\ output["gain.amount"] = "lp"
  /\ host.obj = "gain" /\ host.t = 2 /\ pulls = 2
  /\ runs["lp"][1] = 1 /\ runs["lp"][2] = 1
  /\ Len(log["gain"].pulled) = 2

\* C3: every pull a recomputing node makes on a socket carries the time it
\* recomputes for; a Node2 pulls its sockets in declared order and, once it has
\* pulled them all, invokes process with the pulled values in that order.
C3_PullsCarryT ==
  /\ \A n \in Nodes : \A k \in 1..Len(log[n].pulled) :
       log[n].pulled[k].t = log[n].t
  /\ \A n \in Node2Nodes :
       /\ Len(log[n].pulled) <= Len(Sockets(n))
       /\ \A k \in 1..Len(log[n].pulled) : log[n].pulled[k].sock = Sockets(n)[k]
       /\ log[n].done =>
            /\ Len(log[n].pulled) = Len(Sockets(n))
            /\ log[n].args = [k \in 1..Len(Sockets(n)) |-> log[n].pulled[k].val]

\* both nodes have recomputed for time 2, lp with two different socket values
C3_Witness ==
  /\ log["lp"].done /\ log["lp"].t = 2
  /\ log["lp"].args[1] # log["lp"].args[2]
  /\ log["gain"].done /\ log["gain"].t = 2
  /\ Len(log["gain"].pulled) = 2

\* C4: after any sequence of wiring operations the graph is acyclic (a
\* connection that would close a cycle is not made).
C4_WiringAcyclic == Acyclic(output)

\* C5: a pull on an acyclic graph terminates.
C5_Terminates == (Acyclic(output) /\ stack # <<>>) ~> (stack = <<>>)

\* the deepest recursion an acyclic graph of these objects has: gain pulls
\* lp through a chain of two Inputs, and lp pulls its own socket
C5_Witness == Acyclic(output) /\ Len(stack) = 5 /\ ~overflow

\* C6: WAVOutput::run with frame count n pulls its input at the times
\* 1, 2, ..., in this order, never at 0, and n times in all when it is done.
C6_PullsOneToN ==
  /\ Len(wav_pulled) <= wav.frames
  /\ \A k \in 1..Len(wav_pulled) : wav_pulled[k] = k
  /\ wav.pc = "done" => Len(wav_pulled) = wav.frames

\* a run of MaxFrames frames is done
C6_Witness ==
  /\ wav.pc = "done" /\ wav.frames = MaxFrames
  /\ wav_pulled = [k \in 1..MaxFrames |-> k]
  /\ wav.bytes = HeaderBytes + MaxFrames * FrameBytes

\* the event of the last call is a note-on / a note-off
LastOn == adsr_call.entered # "none" /\ MIDIEvent_is_note_on(adsr_call.event)
LastOff == adsr_call.entered # "none" /\ MIDIEvent_is_note_off(adsr_call.event)
\* a note is held: ADSR::note is not 0
Held(a) == a.note # 0

\* C7: a note-on while no note is held takes the envelope to Attack; a note-on
\* while a note is held replaces the held note and leaves the state the
\* switch is entered with as it was.
C7_NoteOn ==
  LastOn =>
    /\ adsr.note = adsr_call.event.data1
    /\ ~Held(adsr_call.prev) => adsr_call.entered = "Attack"
    /\ Held(adsr_call.prev) => adsr_call.entered = adsr_call.prev.state

\* a note-on for another note while a note is held and the envelope decays
C7_Witness ==
  /\ LastOn /\ Held(adsr_call.prev)
  /\ adsr_call.prev.state = "Decay" /\ adsr_call.entered = "Decay"
  /\ adsr.note # adsr_call.prev.note

\* C8: a note-off for the held note takes the envelope to Release and marks
\* no note held; a note-off for any other note changes neither the held note
\* nor the state the switch is entered with.
C8_NoteOff ==
  LastOff =>
    IF adsr_call.event.data1 = adsr_call.prev.note
    THEN adsr_call.entered = "Release" /\ ~Held(adsr)
    ELSE adsr_call.entered = adsr_call.prev.state /\ adsr.note = adsr_call.prev.note

\* a note-off for a note other than the held one, during Decay
C8_Witness ==
  /\ LastOff /\ Held(adsr_call.prev)
  /\ adsr_call.event.data1 # adsr_call.prev.note
  /\ adsr_call.prev.state = "Decay" /\ adsr.state = "Decay"

\* C9: until the first note-on every call returns 0; a note-on from rest
\* enters the switch in Attack; a call in Attack below 1.0 returns more than
\* the call before it, and the state becomes Decay exactly when the value is
\* 1.0.
C9_Attack ==
  /\ ~adsr_call.note_on_seen => adsr_call.ret = 0 /\ adsr.value = 0
  /\ (LastOn /\ adsr_call.prev = ADSR_init) => adsr_call.entered = "Attack"
  /\ adsr_call.entered = "Attack" =>
       /\ adsr_call.ret = adsr.value
       /\ adsr_call.prev.value < One => adsr.value > adsr_call.prev.value
       /\ adsr.state = IF adsr.value = One THEN "Decay" ELSE "Attack"

\* an attack from rest has reached 1.0 exactly, in a call that did not start
\* it, and the envelope is in Decay
C9_Witness ==
  /\ adsr_call.entered = "Attack" /\ adsr_call.prev.state = "Attack"
  /\ adsr_call.prev.value = One - 1
  /\ adsr.value = One /\ adsr.state = "Decay"

\* what C10 says of one call
C10_ReleaseStep ==
  /\ adsr_call.entered = "Release" =>
       /\ adsr.value < adsr_call.prev.value \/ adsr.value = 0
       /\ adsr.state = IF adsr.value = 0 THEN "Sustain" ELSE "Release"
  /\ adsr.state = "Sustain" => adsr.value = 0
  /\ adsr_call.entered = "Sustain" => adsr_call.ret = 0

\* C10: in Release the value decreases on every call, is 0 after finitely
\* many calls, the state is then Sustain, and in Sustain the value stays 0.
C10_Release ==
  /\ []C10_ReleaseStep
  /\ (adsr.state = "Release") ~> (adsr.state # "Release")

\* a release that took more than one call has reached 0 exactly, and the
\* envelope is in Sustain
C10_Witness ==
  /\ adsr_call.entered = "Release" /\ adsr_call.prev.state = "Release"
  /\ MIDIEvent_is_note_off(adsr_call.event) = FALSE
  /\ adsr_call.prev.value = 1 /\ adsr.value = 0 /\ adsr.state = "Sustain"


\* the innermost call is n.get(t) on a node n whose routine is running further
\* out in the same pull
ReEntrant ==
  /\ stack # <<>>
  /\ Top.obj \in Nodes /\ Top.pc = "enter"
  /\ \E j \in 1..(Len(stack) - 1) :
       stack[j].obj = Top.obj /\ stack[j].pc = "run"

\* C19: the re-entrant get(t) on a node being recomputed returns the value
\* the node holds from before, without invoking the routine again ...
C19_ReEntrantStep ==
  ReEntrant =>
     /\ runs' = runs
     /\ node_value' = node_value
     /\ Len(stack') = Len(stack) - 1
     /\ stack'[Len(stack')].args =
          Append(stack[Len(stack) - 1].args, node_value[Top.obj])

\* C19: ... and a pull on a graph in which every cycle passes through a
\* memoizing node (no socket reaches itself through sockets alone) terminates.
C19_FeedbackTerminates ==
  /\ [][C19_ReEntrantStep]_vars
  /\ (~InputCycle(output) /\ stack # <<>>) ~> (stack = <<>>)

\* lp is reached again, through gain, while its own routine is running
C19_Witness ==
  /\ ReEntrant /\ ~InputCycle(output) /\ ~Acyclic(output)
  /\ Top.obj = "lp" /\ Len(stack) = 5
  /\ stack[3].obj = "gain" /\ stack[3].pc = "run"

\* one digit followed by '-' characters only
DigitThenDashes(p) ==
  /\ Len(p) >= 1
  /\ IsDigit(p[1])
  /\ \A j \in 2..Len(p) : p[j] = "-"

\* C11: a NotePattern whose pattern is a digit d followed by k '-', fed
\* 6*(k+1) clock ticks, returns a note-on with velocity 15*d for the first
\* tick, a note-off for the last and an empty event for every tick between.
C11_DigitDashes ==
  LET p == note_pattern.pattern
      n == np_call.ticks
      e == np_call.event
  IN
  (DigitThenDashes(p) /\ np_call.clock.status = 248 /\ n \in 1..(6 * Len(p))) =>
     IF n = 1
     THEN /\ MIDIEvent_is_note_on(e)
          /\ e.data1 = note_pattern.note
          /\ e.data2 = 15 * DigitValue(p[1])
     ELSE IF n = 6 * Len(p)
     THEN MIDIEvent_is_note_off(e) /\ e.data1 = note_pattern.note
     ELSE ~MIDIEvent_bool(e)

\* "5--" after 18 clock ticks: the note-off, after a note-on with velocity 75
C11_Witness ==
  /\ note_pattern.pattern = <<"5", "-", "-">>
  /\ np_call.ticks = 18 /\ np_call.clock.status = 248
  /\ MIDIEvent_is_note_off(np_call.event)
  /\ np_call.before = "on" /\ np_call.note_on.data2 = 75

\* the non-empty events so far alternate, as far as the last two tell
Alternates ==
  np_call.last # "none" =>
     /\ np_call.last # np_call.before
     /\ np_call.before = "none" => np_call.last = "on"

\* C20 as stated: for every non-empty pattern over '0'..'8', ' ' and '-' the
\* non-empty events of a NotePattern alternate note-on, note-off, ...,
\* starting with a note-on.
C20_Alternate ==
  Len(note_pattern.pattern) >= 1 => Alternates

\* every '-' continues a note: the pattern does not start with '-' and no
\* '-' follows a ' '
Sustains(p) ==
  /\ Len(p) >= 1
  /\ p[1] # "-"
  /\ \A j \in 2..Len(p) : p[j] = "-" => p[j - 1] # " "

\* C20, amended: for every non-empty pattern over '0'..'8', ' ' and '-' in
\* which every '-' continues a note, the non-empty events of a NotePattern
\* alternate note-on, note-off, ..., starting with a note-on.
C20_AlternateSustained ==
  Sustains(note_pattern.pattern) => Alternates

\* "5-8" at its third step: the note-on of 8 after the note-off of 5
C20_Witness ==
  /\ note_pattern.pattern = <<"5", "-", "8">>
  /\ np_call.ticks = 13
  /\ np_call.last = "on" /\ np_call.before = "off"
  /\ np_call.note_on.data2 = 120

\* C12: the events the note patterns produce are returned by Pattern::process
\* one per call in the order produced (earlier ticks first, within a tick in
\* array order), each once: what was produced is what was returned followed
\* by what is queued.
C12_Fifo ==
  pattern_call.produced = pattern_call.returned \o QueueContents(queue)

\* C13: with N patterns and a queue of capacity N, the number of queued events
\* never exceeds N and Queue::put never overwrites an event not yet taken.
C13_QueueBounded ==
  /\ queue.size <= NPatterns
  /\ ~pattern_call.overwritten

\* C17: while every increment is in (0, 1], MIDIClock::process returns a clock
\* tick on exactly the calls that take the accumulator past 1 and an empty
\* event on every other call, one tick for each whole unit of phase begun, and
\* the accumulator is above 0 and at most 1 after every call.
C17_TickPerWrap ==
  (clock_call.called /\ clock_call.in_range) =>
     /\ (clock_call.event = MIDIEvent_clock)
          = (clock_call.prev + clock_call.inc > One)
     /\ clock_call.event # MIDIEvent_clock => ~MIDIEvent_bool(clock_call.event)
     /\ midi_clock.value > 0 /\ midi_clock.value <= One
     /\ One + clock_call.phase = clock_call.ticks * One + midi_clock.value

\* the third tick, on a call that took the accumulator from below 1 past 1
C17_Witness ==
  /\ clock_call.called /\ clock_call.in_range
  /\ clock_call.ticks = 3
  /\ clock_call.event = MIDIEvent_clock
  /\ clock_call.prev < One /\ clock_call.inc < One
  /\ midi_clock.value < One

\* C14: for the script "0 1/1" the t-th call of Automation::process returns
\* (t-1)/44100 for 1 <= t <= 44101 and 1.0 on every later call; and a ramp of
\* K ticks that follows an instant value at tick 1 has reached its target K
\* ticks after tick 1.
C14_Ramp ==
  LET t == automation_call.calls IN
  /\ (automation.script = Script_0_1s /\ t >= 1) =>
        automation_call.ret =
          Num(IF t <= TicksPerSecond + 1 THEN t - 1 ELSE TicksPerSecond)
  /\ (automation_call.ramp.at = 2 /\ automation_call.ramp.ticks > 0
        /\ t = 1 + automation_call.ramp.ticks) =>
        automation_call.ret = automation_call.ramp.target

\* C15: a ramp token whose duration converts to zero ticks resolves at once:
\* the call after the one that read it returns exactly the target value, and
\* the interpreter is not stalled (t is not below 0).
C15_ZeroRamp ==
  (automation_call.zero.at > 0
     /\ automation_call.calls = automation_call.zero.at + 1) =>
     /\ automation_call.ret = automation_call.zero.target
     /\ automation.t >= 0

\* C16: once a call has found the cursor at the end of the script with the
\* last segment over, every later call returns the value that call returned:
\* delta is zero, and nothing more is parsed.
C16_Frozen ==
  automation_call.ended =>
     /\ automation_call.ret = automation_call.end_value
     /\ automation.delta = Num(0)
     /\ automation_call.parses = automation_call.end_parses
     /\ Automation_at(automation.script, automation.cursor) = Nul

\* "-1 1/.0001", five calls after its ramp of 4 ticks ended at 1.0
C16_Witness ==
  /\ automation_call.ended
  /\ automation_call.ramp.at = 2 /\ automation_call.ramp.ticks = 4
  /\ automation_call.calls = 11
  /\ automation_call.ret = Num(TicksPerSecond)
  /\ automation.t < 0

\* the distance of a frequency from the target
Apart(f) ==
  IF f >= frequency.target_frequency THEN f - frequency.target_frequency
  ELSE frequency.target_frequency - f

\* C18: after a note-on received while a note was held, every call takes the
\* output no further from the target and never beyond it, and whenever the
\* glide factor is neutral the output is the target: a glide does not stop
\* short of it.
C18_Glide ==
  (frequency_call.called /\ frequency_call.glide) =>
     /\ Apart(frequency_call.ret) <= Apart(frequency_call.prev)
     /\ frequency_call.from <= frequency.target_frequency
          => frequency_call.ret <= frequency.target_frequency
     /\ frequency_call.from >= frequency.target_frequency
          => frequency_call.ret >= frequency.target_frequency
     /\ frequency.factor = 0
          => frequency_call.ret = frequency.target_frequency

\* C21: for a non-empty pattern of length L, after every call of
\* NotePattern::process the counter t is in 0 .. 6*L - 1, every read
\* pattern[t/6] the call made was at an index of at most L (never past the
\* terminator), and t is the number of clock ticks so far modulo 6*L: after
\* sub-tick 5 of the last step it is back at 0 and the pattern repeats.
C21_CounterBounds ==
  LET L == Len(note_pattern.pattern) IN
  L >= 1 =>
     /\ note_pattern.t >= 0 /\ note_pattern.t < 6 * L
     /\ \A k \in 1..Len(np_call.reads) :
          np_call.reads[k] >= 0 /\ np_call.reads[k] <= L
     /\ note_pattern.t = np_call.ticks % (6 * L)

\* the 18th clock tick of a pattern of three steps: the call read the last
\* step, the terminator and the first step, and t is back at 0
C21_Witness ==
  /\ Len(note_pattern.pattern) = 3
  /\ np_call.ticks = 18 /\ np_call.clock.status = 248
  /\ np_call.reads = <<2, 3, 0>>
  /\ note_pattern.t = 0

====
